---- MODULE Spec2Model ----
(***************************************************************************)
(* Multi-level indexed file header of the Nachos file system               *)
(* (filesys/filehdr.h, filesys/filehdr.cc): FileHeader is the root of a    *)
(* tree of IndexBlock nodes that maps byte offsets of a file to disk       *)
(* sectors.  Every operation is one atomic step (the layer is              *)
(* single-threaded and synchronous).                                       *)
(*                                                                         *)
(* The geometry is scaled down: the device sector is SectorSize bytes      *)
(* instead of 128, every other size is derived from it exactly as          *)
(* filehdr.h derives it.                                                   *)
(***************************************************************************)
EXTENDS Integers, Sequences, FiniteSets, TLC

\* ---------------------------------------------------------------- geometry

\* Bytes of one device sector (disk.h; 128 on the real device).
SectorSize == 16

\* sizeof(int).
IntSize == 4

\* Number of sectors of the device (disk.h).
NumSectors == 180

\* filehdr.h:21
NumSectorInt == SectorSize \div IntSize

\* filehdr.h:22
NumPointers == (SectorSize - 2 * IntSize) \div IntSize

\* filehdr.h:23
MaxDirectBytes == NumPointers * SectorSize

\* filehdr.h:24
MaxSingleIndirectBytes == NumPointers * NumSectorInt * SectorSize

\* filehdr.h:25
MaxDoubleIndirectBytes == NumPointers * NumSectorInt * NumSectorInt * SectorSize

\* filehdr.h:26
MaxTripleIndirectBytes ==
    NumPointers * NumSectorInt * NumSectorInt * NumSectorInt * SectorSize

\* filehdr.h:27
MaxFileSize == MaxTripleIndirectBytes

\* filehdr.h:28
FileHeaderDiskSize == IntSize + IntSize + NumPointers * SectorSize

\* filehdr.h:29
sizePerPointer(l) ==
    CASE l = 0 -> SectorSize
      [] l = 1 -> NumSectorInt * SectorSize
      [] l = 2 -> NumSectorInt * NumSectorInt * SectorSize
      [] l = 3 -> NumSectorInt * NumSectorInt * NumSectorInt * SectorSize

\* enum { LDirect, LSingle, LDouble, LTriple } (filehdr.h:120)
LDirect == 0
LSingle == 1
LDouble == 2
LTriple == 3

\* ------------------------------------------------------------- C arithmetic

\* int / int of C: the quotient truncated toward zero (b > 0).
CDiv(a, b) == IF a >= 0 THEN a \div b ELSE -((-a) \div b)

\* int % int of C: the remainder has the sign of the dividend (b > 0).
CMod(a, b) == a - b * CDiv(a, b)

\* divRoundUp(n, s) of lib/utility.h.
divRoundUp(n, s) == CDiv(n, s) + (IF CMod(n, s) > 0 THEN 1 ELSE 0)

\* ---------------------------------------------------- free-sector bitmap
\* A bitmap is the set of the sector numbers whose bit is set (marked used).

Sectors == 0 .. (NumSectors - 1)

\* Bitmap::Test.  Outside Sectors its own ASSERT(which >= 0 && which <
\* numBits) stops the program; every caller here is itself an ASSERT(Test),
\* so FALSE stands for both ways of stopping.
Test(map, which) == which \in Sectors /\ which \in map

\* Bitmap::Mark
Mark(map, which) == map \cup {which}

\* Bitmap::Clear
Clear(map, which) == map \ {which}

\* Bitmap::NumClear
NumClear(map) == Cardinality(Sectors \ map)

\* Bitmap::FindAndSet, the sector it returns: one clear bit, -1 when every
\* bit is set (the caller marks it).
FindAndSet(map) ==
    IF \E s \in Sectors : s \notin map
    THEN CHOOSE s \in Sectors : s \notin map
    ELSE -1

\* ------------------------------------------------------------- IndexBlock

\* IndexBlock::IndexBlock(level)
NewIndexBlock(level) ==
    [level           |-> level,
     numBytes        |-> -1,
     numSectors      |-> -1,
     levelSectors    |-> -1,
     nextSectors     |-> [i \in 0 .. (NumSectorInt - 1) |-> -1],
     nextIndexBlocks |-> << >>]

\* AllocChildSize that hands the last child the parent's whole remSize
\* instead of the remainder.
AllocChildSizeWhole(i, levelSectors, numBytes, remSize, level) ==
    IF i = levelSectors - 1 /\ CMod(numBytes, sizePerPointer(level)) # 0
    THEN remSize
    ELSE sizePerPointer(level)

\* The byte count IndexBlock::Allocate passes to child i (filehdr.cc:81).
AllocChildSize(i, levelSectors, numBytes, remSize, level) ==
    IF i = levelSectors - 1 /\ CMod(numBytes, sizePerPointer(level)) # 0
    THEN CMod(remSize, sizePerPointer(level))
    ELSE sizePerPointer(level)

\* The loop of filehdr.cc:71-74: one FindAndSet per active entry; the
\* ASSERT on Test of the returned sector stops the program when FindAndSet
\* returned -1.
RECURSIVE ClaimNextSectors(_, _, _, _)
ClaimNextSectors(map, secs, i, n) ==
    IF i >= n THEN [ok |-> TRUE, map |-> map, secs |-> secs]
    ELSE LET s == FindAndSet(map)
             m == IF s \in Sectors THEN Mark(map, s) ELSE map
         IN  IF ~Test(m, s)
             THEN [ok |-> FALSE, map |-> m, secs |-> [secs EXCEPT ![i] = s]]
             ELSE ClaimNextSectors(m, [secs EXCEPT ![i] = s], i + 1, n)

RECURSIVE IndexBlock_Allocate(_, _, _)
RECURSIVE AllocateChildren(_, _, _, _, _)

\* One turn of the loop of filehdr.cc:79-83, r the outcome of child i's
\* Allocate: a child that did not return TRUE ends the parent's Allocate.
AllocateChild(blk, r, kids, i, remSize) ==
    IF r.ret # "TRUE"
    THEN [ret |-> r.ret, why |-> r.why, map |-> r.map,
          kids |-> Append(kids, r.blk)]
    ELSE AllocateChildren(blk, r.map, Append(kids, r.blk), i + 1, remSize)

\* The loop of filehdr.cc:79-83; blk is the parent with its own entries
\* claimed, kids the children built so far.
AllocateChildren(blk, map, kids, i, remSize) ==
    IF i >= blk.levelSectors
    THEN [ret |-> "TRUE", why |-> "", map |-> map, kids |-> kids]
    ELSE AllocateChild(blk,
            IndexBlock_Allocate(blk.level - 1, map,
                AllocChildSize(i, blk.levelSectors, blk.numBytes, remSize,
                               blk.level)),
            kids, i, remSize)

\* filehdr.cc:61-63: the sizes of a fresh IndexBlock(level) for remSize.
SizedIndexBlock(level, remSize) ==
    [NewIndexBlock(level) EXCEPT
        !.numBytes = remSize,
        !.numSectors = divRoundUp(remSize, SectorSize),
        !.levelSectors = divRoundUp(remSize, sizePerPointer(level))]

\* The end of IndexBlock::Allocate: blk with the children's outcome k.
WithChildren(blk, k) ==
    [ret |-> k.ret, why |-> k.why, map |-> k.map,
     blk |-> [blk EXCEPT !.nextIndexBlocks = k.kids]]

\* filehdr.cc:71-85, c the outcome of claiming blk's own entries.
AllocateClaimed(blk, c, remSize) ==
    IF ~c.ok
    THEN [ret |-> "ABORT", why |-> "FindAndSet", map |-> c.map,
          blk |-> [blk EXCEPT !.nextSectors = c.secs]]
    ELSE IF blk.level = 0
    THEN [ret |-> "TRUE", why |-> "", map |-> c.map,
          blk |-> [blk EXCEPT !.nextSectors = c.secs]]
    ELSE WithChildren([blk EXCEPT !.nextSectors = c.secs],
            AllocateChildren([blk EXCEPT !.nextSectors = c.secs], c.map,
                             << >>, 0, remSize))

\* filehdr.cc:61-85 on the sized block blk.
AllocateSized(blk, freeMap, remSize) ==
    AllocateClaimed(blk,
        ClaimNextSectors(freeMap, blk.nextSectors, 0, blk.levelSectors),
        remSize)

\* IndexBlock::Allocate on a fresh IndexBlock(level).  ret is "TRUE",
\* "FALSE" or "ABORT" (an ASSERT stopped the program; why names it).
IndexBlock_Allocate(level, freeMap, remSize) ==
    IF ~(remSize > 0)
    THEN [ret |-> "ABORT", why |-> "remSize", map |-> freeMap,
          blk |-> NewIndexBlock(level)]
    ELSE AllocateSized(SizedIndexBlock(level, remSize), freeMap, remSize)

\* ------------------------------------------------------------- FileHeader

\* FileHeader::FileHeader()
NewFileHeader ==
    [numBytes        |-> -1,
     numSectors      |-> -1,
     dataSectors     |-> [i \in 0 .. (NumPointers - 1) |-> -1],
     level           |-> LDirect,
     levelSectors    |-> -1,
     nextIndexBlocks |-> << >>]

\* InitLevel with < for <=.
InitLevelStrict(numBytes) ==
    IF numBytes < MaxDirectBytes THEN LDirect
    ELSE IF numBytes < MaxSingleIndirectBytes THEN LSingle
    ELSE IF numBytes < MaxDoubleIndirectBytes THEN LDouble
    ELSE IF numBytes < MaxTripleIndirectBytes THEN LTriple
    ELSE -1

\* FileHeader::InitLevel: the level for numBytes, -1 when ASSERT(FALSE)
\* stops the program.
InitLevel(numBytes) ==
    IF numBytes <= MaxDirectBytes THEN LDirect
    ELSE IF numBytes <= MaxSingleIndirectBytes THEN LSingle
    ELSE IF numBytes <= MaxDoubleIndirectBytes THEN LDouble
    ELSE IF numBytes <= MaxTripleIndirectBytes THEN LTriple
    ELSE -1

\* NotEnoughSpace with the comparison off by one.
NotEnoughSpaceOffByOne(freeMap, numSectors) ==
    Cardinality((0 .. (NumSectors - 1)) \ freeMap) < numSectors - 1

\* The up-front test of FileHeader::Allocate (filehdr.cc:259): TRUE when
\* the call returns FALSE for lack of space.
NotEnoughSpace(freeMap, numSectors) == NumClear(freeMap) < numSectors

\* The byte count FileHeader::Allocate passes to child i (filehdr.cc:288).
RootAllocChildSize(i, levelSectors, fileSize, level) ==
    IF i = levelSectors - 1 /\ CMod(fileSize, sizePerPointer(level)) # 0
    THEN CMod(fileSize, sizePerPointer(level))
    ELSE sizePerPointer(level)

\* The loop of filehdr.cc:278-281: one FindAndSet per active entry,
\* ASSERT(dataSectors[i] >= 0) stops the program when none is free.
RECURSIVE ClaimDataSectors(_, _, _, _)
ClaimDataSectors(map, secs, i, n) ==
    IF i >= n THEN [ok |-> TRUE, map |-> map, secs |-> secs]
    ELSE LET s == FindAndSet(map)
             m == IF s \in Sectors THEN Mark(map, s) ELSE map
         IN  IF ~(s >= 0)
             THEN [ok |-> FALSE, map |-> m, secs |-> [secs EXCEPT ![i] = s]]
             ELSE ClaimDataSectors(m, [secs EXCEPT ![i] = s], i + 1, n)

RECURSIVE RootAllocateChildren(_, _, _, _, _)

\* One turn of the loop of filehdr.cc:286-290, r the outcome of child i's
\* Allocate.
RootAllocateChild(h, r, kids, i, fileSize) ==
    IF r.ret # "TRUE"
    THEN [ret |-> r.ret, why |-> r.why, map |-> r.map,
          kids |-> Append(kids, r.blk)]
    ELSE RootAllocateChildren(h, r.map, Append(kids, r.blk), i + 1, fileSize)

\* The loop of filehdr.cc:286-290.
RootAllocateChildren(h, map, kids, i, fileSize) ==
    IF i >= h.levelSectors
    THEN [ret |-> "TRUE", why |-> "", map |-> map, kids |-> kids]
    ELSE RootAllocateChild(h,
            IndexBlock_Allocate(h.level - 1, map,
                RootAllocChildSize(i, h.levelSectors, fileSize, h.level)),
            kids, i, fileSize)

\* The end of FileHeader::Allocate: h with the children's outcome k.
RootWithChildren(h, k) ==
    [ret |-> k.ret, why |-> k.why, map |-> k.map,
     hdr |-> [h EXCEPT !.nextIndexBlocks = k.kids]]

\* filehdr.cc:278-293, c the outcome of claiming h's own entries.
RootAllocateClaimed(h, c, fileSize) ==
    IF ~c.ok
    THEN [ret |-> "ABORT", why |-> "FindAndSet", map |-> c.map,
          hdr |-> [h EXCEPT !.dataSectors = c.secs]]
    ELSE IF h.level = LDirect
    THEN [ret |-> "TRUE", why |-> "", map |-> c.map,
          hdr |-> [h EXCEPT !.dataSectors = c.secs]]
    ELSE RootWithChildren([h EXCEPT !.dataSectors = c.secs],
            RootAllocateChildren([h EXCEPT !.dataSectors = c.secs], c.map,
                                 << >>, 0, fileSize))

\* filehdr.cc:271-293 on header h, whose level InitLevel has set.
RootAllocateLevel(h, freeMap, fileSize) ==
    RootAllocateClaimed(h,
        ClaimDataSectors(freeMap, h.dataSectors, 0, h.levelSectors),
        fileSize)

\* filehdr.cc:259-293 on header h, whose numBytes and numSectors are set.
RootAllocateSized(h, freeMap, fileSize) ==
    IF NotEnoughSpace(freeMap, h.numSectors)
    THEN [ret |-> "FALSE", why |-> "", map |-> freeMap, hdr |-> h]
    ELSE IF InitLevel(h.numBytes) < 0
    THEN [ret |-> "ABORT", why |-> "InitLevel", map |-> freeMap, hdr |-> h]
    ELSE RootAllocateLevel(
            [h EXCEPT !.level = InitLevel(h.numBytes),
                      !.levelSectors =
                          divRoundUp(fileSize,
                                     sizePerPointer(InitLevel(h.numBytes)))],
            freeMap, fileSize)

\* FileHeader::Allocate on header h.  ret is "TRUE", "FALSE" or "ABORT" (an
\* ASSERT stopped the program; why names it).
FileHeader_Allocate(h, freeMap, fileSize) ==
    RootAllocateSized(
        [h EXCEPT !.numBytes = fileSize,
                  !.numSectors = divRoundUp(fileSize, SectorSize)],
        freeMap, fileSize)

\* FileHeader::FileLength
FileLength(h) == h.numBytes

\* ------------------------------------------------------------ Deallocate

\* The loop of filehdr.cc:97-100 (and 318-321): ASSERT(Test) then Clear,
\* entry by entry; ok is FALSE when the ASSERT stopped the program.
RECURSIVE ClearEntries(_, _, _, _)
ClearEntries(map, secs, i, n) ==
    IF i >= n THEN [ok |-> TRUE, map |-> map]
    ELSE IF ~Test(map, secs[i]) THEN [ok |-> FALSE, map |-> map]
    ELSE ClearEntries(Clear(map, secs[i]), secs, i + 1, n)

RECURSIVE IndexBlock_Deallocate(_, _)
RECURSIVE DeallocateChildren(_, _, _, _)

\* One turn of the loop of filehdr.cc:92-94, r the outcome of child i's
\* Deallocate.
DeallocateChild(kids, r, i, n) ==
    IF ~r.ok THEN r ELSE DeallocateChildren(kids, r.map, i + 1, n)

\* DeallocateChildren that leaves the children alone.
DeallocateNoChildren(kids, map, i, n) == [ok |-> TRUE, map |-> map]

\* The loop of filehdr.cc:92-94 (and 314-316) over the children kids.
DeallocateChildren(kids, map, i, n) ==
    IF i >= n THEN [ok |-> TRUE, map |-> map]
    ELSE DeallocateChild(kids, IndexBlock_Deallocate(kids[i + 1], map), i, n)

\* filehdr.cc:97-100 (and 318-321), k the outcome of the children's
\* Deallocate, secs the node's own table.
ClearOwnEntries(k, secs, n) ==
    IF ~k.ok THEN k ELSE ClearEntries(k.map, secs, 0, n)

\* IndexBlock::Deallocate
IndexBlock_Deallocate(blk, freeMap) ==
    ClearOwnEntries(
        IF blk.level # 0
        THEN DeallocateChildren(blk.nextIndexBlocks, freeMap, 0,
                                blk.levelSectors)
        ELSE [ok |-> TRUE, map |-> freeMap],
        blk.nextSectors, blk.levelSectors)

\* FileHeader::Deallocate
FileHeader_Deallocate(h, freeMap) ==
    ClearOwnEntries(
        IF h.level # LDirect
        THEN DeallocateChildren(h.nextIndexBlocks, freeMap, 0, h.levelSectors)
        ELSE [ok |-> TRUE, map |-> freeMap],
        h.dataSectors, h.levelSectors)

\* ------------------------------------------------- WriteBack / FetchFrom
\* The disk is a function from the sectors written so far to their content,
\* the content a function from word index 0 .. NumSectorInt-1 to an int; a
\* sector never written holds zeros.

ZeroSector == [w \in 0 .. (NumSectorInt - 1) |-> 0]

\* SynchDisk::WriteSector, for the calls ws = << <<sector, data>>, ... >>
\* issued in that order: a sector holds what the last call on it wrote.
WriteSectors(dsk, ws) ==
    [s \in DOMAIN dsk \cup {ws[k][1] : k \in DOMAIN ws} |->
        IF \E k \in DOMAIN ws : ws[k][1] = s
        THEN ws[CHOOSE k \in DOMAIN ws :
                    /\ ws[k][1] = s
                    /\ \A j \in DOMAIN ws : ws[j][1] = s => j <= k][2]
        ELSE dsk[s]]

\* SynchDisk::ReadSector
ReadSector(dsk, sector) ==
    IF sector \in DOMAIN dsk THEN dsk[sector] ELSE ZeroSector

RECURSIVE IndexBlock_WriteBack(_, _)
RECURSIVE WriteBackChildren(_, _, _, _)

\* The loop of filehdr.cc:127-131 (and 400-404): child i goes to the
\* sector named by entry i of the parent's table secs.  The value is the
\* sequence of WriteSector calls the loop issues, in order.
WriteBackChildren(kids, secs, i, n) ==
    IF i >= n THEN << >>
    ELSE IndexBlock_WriteBack(kids[i + 1], secs[i])
             \o WriteBackChildren(kids, secs, i + 1, n)

\* IndexBlock::WriteBack: its own table first, then the children.
IndexBlock_WriteBack(blk, sector) ==
    IF blk.level # 0
    THEN << <<sector, blk.nextSectors>> >>
             \o WriteBackChildren(blk.nextIndexBlocks, blk.nextSectors, 0,
                                  blk.levelSectors)
    ELSE << <<sector, blk.nextSectors>> >>

\* PackHeader with the offset not advanced past numSectors: the table
\* starts one word late.
PackHeaderShifted(h) ==
    [w \in 0 .. (NumSectorInt - 1) |->
        IF w = 0 THEN h.numBytes
        ELSE IF w = 1 \/ w = 2 THEN h.numSectors
        ELSE h.dataSectors[w - 3]]

\* The buffer FileHeader::WriteBack packs (filehdr.cc:389-396), word by
\* word: numBytes, numSectors, dataSectors[0 .. NumPointers-1].
PackHeader(h) ==
    [w \in 0 .. (NumSectorInt - 1) |->
        IF w = 0 THEN h.numBytes
        ELSE IF w = 1 THEN h.numSectors
        ELSE h.dataSectors[w - 2]]

\* The value of offset when FileHeader::WriteBack has packed the buffer
\* (filehdr.cc:390-396): sizeof(numBytes) + sizeof(numSectors) +
\* sizeof(dataSectors), the bytes of buf that hold the record.
PackedBytes == IntSize + IntSize + NumPointers * IntSize

\* FileHeader::WriteBack: the packed record first, then the children.
FileHeader_WriteBack(h, sector, dsk) ==
    IF h.level # LDirect
    THEN WriteSectors(dsk, << <<sector, PackHeader(h)>> >>
             \o WriteBackChildren(h.nextIndexBlocks, h.dataSectors, 0,
                                  h.levelSectors))
    ELSE WriteSectors(dsk, << <<sector, PackHeader(h)>> >>)

\* FetchChildSize without the remainder for the last child.
FetchChildSizeFull(i, levelSectors, numBytes, remSize, level) ==
    sizePerPointer(level)

\* The byte count IndexBlock::FetchFrom passes to child i (filehdr.cc:116).
FetchChildSize(i, levelSectors, numBytes, remSize, level) ==
    IF i = levelSectors - 1 /\ CMod(numBytes, sizePerPointer(level)) # 0
    THEN CMod(remSize, sizePerPointer(level))
    ELSE sizePerPointer(level)

RECURSIVE IndexBlock_FetchFrom(_, _, _, _)
RECURSIVE FetchChildren(_, _, _, _, _)

\* The loop of filehdr.cc:114-117.
FetchChildren(blk, dsk, kids, i, remSize) ==
    IF i >= blk.levelSectors THEN kids
    ELSE FetchChildren(blk, dsk,
            Append(kids,
                   IndexBlock_FetchFrom(blk.level - 1, dsk, blk.nextSectors[i],
                        FetchChildSize(i, blk.levelSectors, blk.numBytes,
                                       remSize, blk.level))),
            i + 1, remSize)

\* filehdr.cc:111-118 on blk, whose sizes and table are set.
FetchRead(blk, dsk, remSize) ==
    IF blk.level # 0
    THEN [blk EXCEPT !.nextIndexBlocks =
                        FetchChildren(blk, dsk, << >>, 0, remSize)]
    ELSE blk

\* IndexBlock::FetchFrom on a fresh IndexBlock(level).
IndexBlock_FetchFrom(level, dsk, sector, remSize) ==
    FetchRead([NewIndexBlock(level) EXCEPT
                  !.numBytes = remSize,
                  !.numSectors = divRoundUp(remSize, SectorSize),
                  !.levelSectors = divRoundUp(remSize, sizePerPointer(level)),
                  !.nextSectors = ReadSector(dsk, sector)],
              dsk, remSize)

\* The byte count FileHeader::FetchFrom passes to child i (filehdr.cc:361).
RootFetchChildSize(i, levelSectors, numBytes, level) ==
    IF i = levelSectors - 1 /\ CMod(numBytes, sizePerPointer(level)) # 0
    THEN CMod(numBytes, sizePerPointer(level))
    ELSE sizePerPointer(level)

\* The loop of filehdr.cc:359-362.
RECURSIVE RootFetchChildren(_, _, _, _)
RootFetchChildren(h, dsk, kids, i) ==
    IF i >= h.levelSectors THEN kids
    ELSE RootFetchChildren(h, dsk,
            Append(kids,
                   IndexBlock_FetchFrom(h.level - 1, dsk, h.dataSectors[i],
                        RootFetchChildSize(i, h.levelSectors, h.numBytes,
                                           h.level))),
            i + 1)

\* filehdr.cc:343-351: the fields FileHeader::FetchFrom unpacks from the
\* sector's words buf.
UnpackHeader(h, buf) ==
    [h EXCEPT !.numBytes = buf[0],
              !.numSectors = buf[1],
              !.dataSectors = [i \in 0 .. (NumPointers - 1) |-> buf[i + 2]]]

\* filehdr.cc:356-363 on header h, whose level and levelSectors are set.
RootFetchLevel(h, dsk) ==
    IF h.level # LDirect
    THEN [h EXCEPT !.nextIndexBlocks = RootFetchChildren(h, dsk, << >>, 0)]
    ELSE h

\* filehdr.cc:353-363 on the unpacked header h.
RootFetchUnpacked(h, dsk) ==
    IF InitLevel(h.numBytes) < 0 THEN [ok |-> FALSE, hdr |-> h]
    ELSE [ok |-> TRUE,
          hdr |-> RootFetchLevel(
                    [h EXCEPT !.level = InitLevel(h.numBytes),
                              !.levelSectors =
                                  divRoundUp(h.numBytes,
                                      sizePerPointer(InitLevel(h.numBytes)))],
                    dsk)]

\* FileHeader::FetchFrom on header h; ok is FALSE when InitLevel's
\* ASSERT(FALSE) stopped the program.
FileHeader_FetchFrom(h, sector, dsk) ==
    RootFetchUnpacked(UnpackHeader(h, ReadSector(dsk, sector)), dsk)

\* ---------------------------------------------------------- ByteToSector
\* A lookup ends in one of three ways: kind "sector" (sec is returned),
\* "ASSERT" (an ASSERT stopped the program), or "UB" (the code indexed an
\* array outside its bounds or called through a NULL child: undefined).

RECURSIVE IndexBlock_ByteToSector(_, _)

\* Descend with the offset handed down as it came.
DescendSameOffset(kids, levelSector, offset, size) ==
    IF levelSector + 1 \in DOMAIN kids
    THEN IndexBlock_ByteToSector(kids[levelSector + 1], offset)
    ELSE [kind |-> "UB", sec |-> -1]

\* filehdr.cc:145 (and 431): the lookup goes on in child levelSector with
\* the offset made local to it; a child that is not there is undefined.
Descend(kids, levelSector, offset, size) ==
    IF levelSector + 1 \in DOMAIN kids
    THEN IndexBlock_ByteToSector(kids[levelSector + 1],
                                 offset - levelSector * size)
    ELSE [kind |-> "UB", sec |-> -1]

\* IndexBlock::ByteToSector
IndexBlock_ByteToSector(blk, offset) ==
    IF ~(offset >= 0) \/ ~(offset < blk.levelSectors * sizePerPointer(blk.level))
    THEN [kind |-> "ASSERT", sec |-> -1]
    ELSE IF blk.level = 0
    THEN [kind |-> "sector",
          sec |-> blk.nextSectors[CDiv(offset, sizePerPointer(blk.level))]]
    ELSE Descend(blk.nextIndexBlocks,
                 CDiv(offset, sizePerPointer(blk.level)), offset,
                 sizePerPointer(blk.level))

\* FileHeader_ByteToSector that stops at the root's table: at every level
\* it returns the root's entry for the offset.
FileHeader_ByteToSectorEntry(h, offset) ==
    IF CDiv(offset, sizePerPointer(h.level)) \in DOMAIN h.dataSectors
    THEN [kind |-> "sector",
          sec |-> h.dataSectors[CDiv(offset, sizePerPointer(h.level))]]
    ELSE [kind |-> "UB", sec |-> -1]

\* FileHeader::ByteToSector
FileHeader_ByteToSector(h, offset) ==
    IF h.level = LDirect
    THEN IF CDiv(offset, sizePerPointer(h.level)) \in DOMAIN h.dataSectors
         THEN [kind |-> "sector",
               sec |-> h.dataSectors[CDiv(offset, sizePerPointer(h.level))]]
         ELSE [kind |-> "UB", sec |-> -1]
    ELSE Descend(h.nextIndexBlocks, CDiv(offset, sizePerPointer(h.level)),
                 offset, sizePerPointer(h.level))

\* ------------------------------------------------------------ the system

VARIABLES
    freeMap,   \* the PersistentBitmap of free sectors, shared by all calls
    disk,      \* the sector device
    hdr,       \* the FileHeader that Allocate builds
    hdr2,      \* a second, fresh FileHeader that FetchFrom loads
    pc,        \* "new", "allocated", "failed", "stopped" or "deallocated"
    loaded,    \* hdr2 has been loaded by FetchFrom
    written,   \* the sector hdr was last written back to, -1 before
    before,    \* freeMap as it was when Allocate was called
    call,      \* the last call: its name, argument and outcome
    lookup     \* the outcome of the last hdr.ByteToSector(offset)

vars ==
    << freeMap, disk, hdr, hdr2, pc, loaded, written, before, call, lookup >>

\* The sectors that hold file headers; the file system claims the header's
\* sector in freeMap before FileHeader::Allocate is called, so they are
\* marked in every initial bitmap.
HeaderSectors == {0, 1}

\* Number of free sectors of the nearly full initial bitmaps.
FewFreeA == 3
FewFreeB == 11
FewFreeC == 45

\* k scattered free sectors.
Scattered(k) == {s \in Sectors : s >= 2 /\ s % 2 = 1 /\ s < 2 + 2 * k}

\* The sets of sectors marked used when the file is created.
InitUsedSets ==
    { HeaderSectors,
      HeaderSectors \cup {s \in Sectors : s % 3 = 2},
      Sectors \ Scattered(FewFreeA),
      Sectors \ Scattered(FewFreeB),
      Sectors \ Scattered(FewFreeC) }

\* The file sizes Allocate is called with: every size up to two Single
\* pointers' worth, and beyond it the sizes at and next to every sector
\* boundary, up to one sector past MaxFileSize.
FileSizes ==
    {n \in 0 .. (MaxFileSize + SectorSize) :
        \/ n <= 2 * sizePerPointer(LSingle) + 1
        \/ n % SectorSize \in {0, 1, SectorSize - 1}}

NoCall == [op |-> "none", arg |-> 0, ret |-> "", why |-> ""]

\* kind is "none" before any lookup, then "sector" (sec was returned),
\* "ASSERT" (an ASSERT stopped the program) or "crash"; ub tells that the
\* outcome is one of those undefined behaviour can have.
NoLookup == [offset |-> 0, kind |-> "none", sec |-> -1, ub |-> FALSE]

Init ==
    /\ freeMap \in InitUsedSets
    /\ disk = << >>
    /\ hdr = NewFileHeader
    /\ hdr2 = NewFileHeader
    /\ pc = "new"
    /\ loaded = FALSE
    /\ written = -1
    /\ before = freeMap
    /\ call = NoCall
    /\ lookup = NoLookup

\* The state after hdr.Allocate(freeMap, fileSize) ended as r.
Allocated(fileSize, r) ==
    /\ freeMap' = r.map
    /\ hdr' = r.hdr
    /\ pc' = CASE r.ret = "TRUE"  -> "allocated"
               [] r.ret = "FALSE" -> "failed"
               [] OTHER           -> "stopped"
    /\ call' = [op |-> "Allocate", arg |-> fileSize, ret |-> r.ret,
                why |-> r.why]
    /\ before' = freeMap
    /\ UNCHANGED << disk, hdr2, loaded, written, lookup >>

\* hdr.Allocate(freeMap, fileSize)
Allocate(fileSize) ==
    /\ pc = "new"
    /\ Allocated(fileSize, FileHeader_Allocate(hdr, freeMap, fileSize))

\* hdr.WriteBack(sector)
WriteBack(sector) ==
    /\ pc = "allocated"
    /\ written = -1
    /\ disk' = FileHeader_WriteBack(hdr, sector, disk)
    /\ written' = sector
    /\ call' = [op |-> "WriteBack", arg |-> sector, ret |-> "", why |-> ""]
    /\ UNCHANGED << freeMap, hdr, hdr2, pc, loaded, before, lookup >>

\* The state after hdr2.FetchFrom(sector) ended as r.
Fetched(sector, r) ==
    /\ hdr2' = r.hdr
    /\ loaded' = r.ok
    /\ pc' = IF r.ok THEN pc ELSE "stopped"
    /\ call' = [op |-> "FetchFrom", arg |-> sector,
                ret |-> IF r.ok THEN "" ELSE "ABORT",
                why |-> IF r.ok THEN "" ELSE "InitLevel"]
    /\ UNCHANGED << freeMap, disk, hdr, written, before, lookup >>

\* hdr2.FetchFrom(sector), of a sector a header was written to
FetchFrom(sector) ==
    /\ pc = "allocated"
    /\ written = sector
    /\ ~loaded
    /\ Fetched(sector, FileHeader_FetchFrom(hdr2, sector, disk))

\* The state after Deallocate ended as r.
Deallocated(which, r) ==
    /\ freeMap' = r.map
    /\ pc' = IF r.ok THEN "deallocated" ELSE "stopped"
    /\ call' = [op |-> "Deallocate", arg |-> which,
                ret |-> IF r.ok THEN "" ELSE "ABORT",
                why |-> IF r.ok THEN "" ELSE "Test"]
    /\ UNCHANGED << disk, hdr, hdr2, loaded, written, before, lookup >>

\* hdr.Deallocate(freeMap), or hdr2.Deallocate(freeMap) once hdr2 is loaded
Deallocate(which) ==
    /\ pc = "allocated"
    /\ which = 2 => loaded
    /\ Deallocated(which,
          FileHeader_Deallocate(IF which = 2 THEN hdr2 ELSE hdr, freeMap))

Next ==
    \/ \E n \in FileSizes : Allocate(n)
    \/ \E s \in HeaderSectors : WriteBack(s)
    \/ \E s \in HeaderSectors : FetchFrom(s)
    \/ \E w \in {1, 2} : Deallocate(w)

Spec == Init /\ [][Next]_vars

\* ------------------------------------------------------------- lookups

\* What an undefined read or call can do: stop the program, or go on with
\* any int as the sector.
UBOutcomes ==
    {[kind |-> "crash", sec |-> -1]} \cup
    {[kind |-> "sector", sec |-> s] : s \in {-1, 0, NumSectors - 1}}

\* The outcomes the program can show for the lookup result r.
Outcomes(r) ==
    IF r.kind = "UB"
    THEN {[kind |-> o.kind, sec |-> o.sec, ub |-> TRUE] : o \in UBOutcomes}
    ELSE {[kind |-> r.kind, sec |-> r.sec, ub |-> FALSE]}

\* The offsets looked up in header h: around zero, around the file's
\* length, around the end of its last sector, around the end of the root's
\* active entries and of the root's table.
ProbeOffsets(h) ==
    { -SectorSize, -1, 0,
      h.numBytes - 1, h.numBytes,
      divRoundUp(h.numBytes, SectorSize) * SectorSize,
      h.levelSectors * sizePerPointer(h.level) - 1,
      h.levelSectors * sizePerPointer(h.level),
      NumPointers * sizePerPointer(h.level) }

\* The state after hdr.ByteToSector(offset) ended as out.
LookedUp(offset, out) ==
    /\ lookup' = [offset |-> offset, kind |-> out.kind, sec |-> out.sec,
                  ub |-> out.ub]
    /\ pc' = IF out.kind = "sector" THEN pc ELSE "stopped"
    /\ call' = [op |-> "ByteToSector", arg |-> offset,
                ret |-> IF out.kind = "sector" THEN "" ELSE "ABORT",
                why |-> IF out.kind = "sector" THEN "" ELSE out.kind]
    /\ UNCHANGED << freeMap, disk, hdr, hdr2, loaded, written, before >>

\* hdr.ByteToSector(offset)
ByteToSector(offset) ==
    /\ pc = "allocated"
    /\ \E out \in Outcomes(FileHeader_ByteToSector(hdr, offset)) :
          LookedUp(offset, out)

NextLookup ==
    \/ \E n \in FileSizes : Allocate(n)
    \/ \E o \in ProbeOffsets(hdr) : ByteToSector(o)

SpecLookup == Init /\ [][NextLookup]_vars

\* ============================================================== claims

\* ceil(n / SectorSize), computed without the code's divRoundUp.
CeilSectors(n) == (n + SectorSize - 1) \div SectorSize

\* The root level a file of n bytes needs: the number of capacity
\* thresholds rootFanout * capacityAtLevel[l] that n exceeds.
LevelOf(n) ==
    Cardinality({l \in 0 .. 2 : n > NumPointers * sizePerPointer(l)})

\* The sectors a whole tree for n bytes takes: its data sectors and, for
\* every level of indirection, the sectors of that level's index blocks.
SectorsNeeded(n) ==
    CeilSectors(n)
    + (IF LevelOf(n) >= 1 THEN (n + sizePerPointer(1) - 1) \div sizePerPointer(1) ELSE 0)
    + (IF LevelOf(n) >= 2 THEN (n + sizePerPointer(2) - 1) \div sizePerPointer(2) ELSE 0)
    + (IF LevelOf(n) >= 3 THEN (n + sizePerPointer(3) - 1) \div sizePerPointer(3) ELSE 0)

\* Allocate has just returned TRUE.
AllocateSucceeded == call.op = "Allocate" /\ call.ret = "TRUE"

\* The lookup result r is a sector that was free before Allocate and is
\* marked now.
ClaimedSector(r) ==
    /\ r.kind = "sector"
    /\ r.sec \in Sectors
    /\ r.sec \notin before
    /\ r.sec \in freeMap

\* C1: for every size 0 <= n <= MaxFileSize, Allocate on a free map with at
\* least as many free sectors as the tree takes returns TRUE, FileLength()
\* is n afterwards, and ByteToSector(o) of every offset 0 <= o < n is a
\* sector that was free before the call and is marked by it.
C1_AllocateMapsEveryOffset ==
    (/\ call.op = "Allocate"
     /\ call.arg \in 0 .. MaxFileSize
     /\ NumClear(before) >= SectorsNeeded(call.arg))
    => /\ call.ret = "TRUE"
       /\ FileLength(hdr) = call.arg
       /\ \A o \in 0 .. (call.arg - 1) :
              ClaimedSector(FileHeader_ByteToSector(hdr, o))

\* A Triple file with a partial last sector has been allocated on a free
\* map that is not an unbroken run of free sectors.
C1_Witness ==
    /\ AllocateSucceeded
    /\ hdr.level = LTriple
    /\ call.arg % SectorSize # 0
    /\ \E s \in Sectors : s \in before /\ s - 1 \notin before

\* C2 (as claimed): once the up-front check of FileHeader::Allocate has
\* passed, no FindAndSet of the allocation finds the free map exhausted.
C2_FindAndSetNeverExhausted ==
    (/\ call.op = "Allocate"
     /\ NumClear(before) >= CeilSectors(call.arg))
    => call.why # "FindAndSet"

\* C3: on a free map with fewer than ceil(fileSize / S) free sectors
\* Allocate returns FALSE and leaves the free map as it was.
C3_NoSpaceFailsUntouched ==
    (/\ call.op = "Allocate"
     /\ NumClear(before) < CeilSectors(call.arg))
    => /\ call.ret = "FALSE"
       /\ freeMap = before

\* Allocate was refused on a free map that still had free sectors.
C3_Witness ==
    /\ call.op = "Allocate"
    /\ call.ret = "FALSE"
    /\ NumClear(before) > 0
    /\ NumClear(before) = CeilSectors(call.arg) - 1

\* C4 (as claimed): a file larger than MaxFileSize, on a free map that
\* passes the up-front check, makes Allocate return FALSE, as lack of space
\* does.
C4_TooLargeIsOrdinaryFailure ==
    (/\ call.op = "Allocate"
     /\ call.arg > MaxFileSize
     /\ NumClear(before) >= CeilSectors(call.arg))
    => call.ret = "FALSE"

\* A lookup result that is a returned sector.
Returned(r) == r.kind = "sector"

\* C5: after a successful Allocate of n bytes, WriteBack(s) and then
\* FetchFrom(s) on a fresh header give a header with the same FileLength(),
\* the same level and active entries (recomputed from the stored length)
\* and the same ByteToSector(o) for every offset 0 <= o < n.
C5_WriteBackFetchFromRoundTrip ==
    (call.op = "FetchFrom" /\ written = call.arg)
    => /\ loaded
       /\ FileLength(hdr2) = FileLength(hdr)
       /\ hdr2.level = hdr.level
       /\ hdr2.levelSectors = hdr.levelSectors
       /\ \A o \in 0 .. (FileLength(hdr) - 1) :
              /\ Returned(FileHeader_ByteToSector(hdr2, o))
              /\ FileHeader_ByteToSector(hdr2, o) =
                     FileHeader_ByteToSector(hdr, o)

\* A Triple file with a partial last sector has been written back and
\* fetched into the fresh header.
C5_Witness ==
    /\ call.op = "FetchFrom"
    /\ loaded
    /\ hdr2.level = LTriple
    /\ FileLength(hdr2) % SectorSize # 0

\* The sectors named by the active entries of a node and of every node
\* below it.
RECURSIVE BlockSectors(_)
BlockSectors(blk) ==
    {blk.nextSectors[i] : i \in 0 .. (blk.levelSectors - 1)}
    \cup UNION {BlockSectors(blk.nextIndexBlocks[j]) :
                   j \in DOMAIN blk.nextIndexBlocks}

\* The sectors the tree of header h names: data sectors and index-block
\* sectors alike.
TreeSectors(h) ==
    {h.dataSectors[i] : i \in 0 .. (h.levelSectors - 1)}
    \cup UNION {BlockSectors(h.nextIndexBlocks[j]) :
                   j \in DOMAIN h.nextIndexBlocks}

\* C6: after a successful Allocate, Deallocate on the same free map ends
\* without tripping its ASSERT(Test), every sector of the tree is free,
\* every sector used before the Allocate is still used, and no other bit
\* has changed; the tree names each of its sectors once.
C6_DeallocateFreesTheTree ==
    call.op = "Deallocate"
    => /\ call.ret # "ABORT"
       /\ pc = "deallocated"
       /\ TreeSectors(hdr) \cap freeMap = {}
       /\ before \subseteq freeMap
       /\ freeMap = before
       /\ Cardinality(TreeSectors(hdr)) = SectorsNeeded(FileLength(hdr))

\* A Double file, index blocks and all, has been deallocated on a free map
\* that had used sectors among the free ones.
C6_Witness ==
    /\ call.op = "Deallocate"
    /\ pc = "deallocated"
    /\ hdr.level = LDouble
    /\ \E s \in Sectors : s \in before /\ s - 1 \notin before

\* C7 (as claimed): a file of capacityAtLevel[0] bytes is Direct and a file
\* of capacityAtLevel[0] + 1 bytes is Single.
C7_LevelBoundaryAtOnePointer ==
    AllocateSucceeded
    => /\ call.arg = sizePerPointer(0) => hdr.level = LDirect
       /\ call.arg = sizePerPointer(0) + 1 => hdr.level = LSingle

\* C7 (amended): the thresholds are the capacities of the whole root table,
\* rootFanout * capacityAtLevel[l]: a file of exactly that many bytes gets
\* level l, a file of one byte more gets level l + 1.
C7_LevelBoundaryAtRootTable ==
    AllocateSucceeded
    => \A l \in 0 .. 2 :
          /\ call.arg = NumPointers * sizePerPointer(l) => hdr.level = l
          /\ call.arg = NumPointers * sizePerPointer(l) + 1
                => hdr.level = l + 1

\* A file of one byte more than the Direct capacity has been allocated.
C7_Witness ==
    /\ AllocateSucceeded
    /\ call.arg = NumPointers * sizePerPointer(0) + 1
    /\ hdr.level = LSingle

\* C8 (as claimed): ByteToSector of an offset that is negative, or at or
\* beyond activeEntries * capacityAtLevel[level] of the root, never returns
\* a sector id (an ASSERT stops it).  Outcomes of undefined behaviour are
\* left aside: the lookups counted are those the code defines.
C8_OutOfRangeLookupAsserts ==
    (/\ call.op = "ByteToSector"
     /\ ~lookup.ub
     /\ \/ lookup.offset < 0
        \/ lookup.offset >= hdr.levelSectors * sizePerPointer(hdr.level))
    => ~(lookup.kind = "sector" /\ lookup.sec \in Sectors)

\* C9 (as claimed): the record WriteBack writes has FileHeaderDiskSize
\* bytes, which is the packed size of totalBytes, totalSectors and the
\* rootFanout-entry pointer table, 2*W + rootFanout*W, and at most one
\* sector.
C9_HeaderRecordFitsOneSector ==
    call.op = "WriteBack"
    => /\ FileHeaderDiskSize = PackedBytes
       /\ PackedBytes = 2 * IntSize + NumPointers * IntSize
       /\ FileHeaderDiskSize <= SectorSize

\* The sum of the children's numBytes.
RECURSIVE SumBytes(_, _)
SumBytes(kids, i) ==
    IF i > Len(kids) THEN 0 ELSE kids[i].numBytes + SumBytes(kids, i + 1)

\* The children kids of a node of the given level, total bytes and active
\* entries k split the bytes as claimed, and so does every node below.
RECURSIVE SplitOK(_, _, _, _)
SplitOK(total, level, k, kids) ==
    /\ Len(kids) = k
    /\ \A i \in 1 .. k :
          /\ kids[i].numBytes =
                IF i < k THEN sizePerPointer(level)
                ELSE total - sizePerPointer(level) * (k - 1)
          /\ kids[i].numBytes > 0
          /\ kids[i].level = level - 1
          /\ kids[i].level > 0 =>
                SplitOK(kids[i].numBytes, kids[i].level,
                        kids[i].levelSectors, kids[i].nextIndexBlocks)
    /\ SumBytes(kids, 1) = total

\* The byte responsibilities of a subtree: its own and its children's.
RECURSIVE Shares(_)
Shares(node) ==
    [numBytes |-> node.numBytes,
     kids |-> [j \in DOMAIN node.nextIndexBlocks |->
                  Shares(node.nextIndexBlocks[j])]]

\* C10: in the tree built by Allocate and in the tree built by FetchFrom,
\* every node at level > 0 with k active entries gives each child but the
\* last capacityAtLevel[level] bytes and the last child the rest, every
\* child has more than 0 bytes, the children's bytes sum to the parent's;
\* FetchFrom gives every node the bytes Allocate gave it.
C10_ByteResponsibilities ==
    /\ (AllocateSucceeded /\ hdr.level > LDirect)
       => SplitOK(hdr.numBytes, hdr.level, hdr.levelSectors,
                  hdr.nextIndexBlocks)
    /\ (call.op = "FetchFrom" /\ loaded)
       => /\ hdr2.level > LDirect
             => SplitOK(hdr2.numBytes, hdr2.level, hdr2.levelSectors,
                        hdr2.nextIndexBlocks)
          /\ Shares(hdr2) = Shares(hdr)

\* A Triple tree whose last entries hold remainders, at the root and
\* below, has been fetched.
C10_Witness ==
    /\ call.op = "FetchFrom"
    /\ loaded
    /\ hdr2.level = LTriple
    /\ hdr2.numBytes % sizePerPointer(LTriple) # 0
    /\ hdr2.numBytes % sizePerPointer(LDouble) # 0
    /\ hdr2.numBytes % sizePerPointer(LSingle) # 0

\* The sectors that hold the index blocks below blk: the active entries of
\* every table at a level above 0.
RECURSIVE BlockIndexSectors(_)
BlockIndexSectors(blk) ==
    IF blk.level = 0 THEN {}
    ELSE {blk.nextSectors[i] : i \in 0 .. (blk.levelSectors - 1)}
         \cup UNION {BlockIndexSectors(blk.nextIndexBlocks[j]) :
                        j \in DOMAIN blk.nextIndexBlocks}

\* The sectors that hold the index blocks of header h's tree.
IndexSectors(h) ==
    IF h.level = LDirect THEN {}
    ELSE {h.dataSectors[i] : i \in 0 .. (h.levelSectors - 1)}
         \cup UNION {BlockIndexSectors(h.nextIndexBlocks[j]) :
                        j \in DOMAIN h.nextIndexBlocks}

\* The sectors named by the active entries of the level-0 tables of
\* header h's tree: the file's data sectors.
LeafSectors(h) == TreeSectors(h) \ IndexSectors(h)

\* The sector ByteToSector returns for the first byte of block b.
BlockSector(h, b) == FileHeader_ByteToSector(h, b * SectorSize).sec

\* C11: after a successful Allocate of n bytes, at any level,
\* ByteToSector of every offset 0 <= o < n returns a sector, the same one
\* as for every other offset of o's block (o div SectorSize); the sectors
\* of different blocks differ, so that ceil(n / SectorSize) distinct
\* sectors are returned in all; every one is named by a level-0 table
\* and none holds an index block; in a Direct file the sector of offset o
\* is entry o div SectorSize of the root's table.
C11_LookupBlockwiseInjective ==
    AllocateSucceeded
    => /\ \A o \in 0 .. (call.arg - 1) :
             /\ FileHeader_ByteToSector(hdr, o).kind = "sector"
             /\ FileHeader_ByteToSector(hdr, o).sec
                    = BlockSector(hdr, o \div SectorSize)
             /\ hdr.level = LDirect
                    => FileHeader_ByteToSector(hdr, o).sec
                           = hdr.dataSectors[o \div SectorSize]
       /\ Cardinality({BlockSector(hdr, b) :
                          b \in 0 .. (CeilSectors(call.arg) - 1)})
              = CeilSectors(call.arg)
       /\ \A b \in 0 .. (CeilSectors(call.arg) - 1) :
             /\ BlockSector(hdr, b) \in Sectors
             /\ BlockSector(hdr, b) \in LeafSectors(hdr)
             /\ BlockSector(hdr, b) \notin IndexSectors(hdr)
       /\ Cardinality(LeafSectors(hdr)) = CeilSectors(call.arg)

\* A Double file whose last sector holds one byte has been allocated: its
\* last two bytes lie in different blocks and map to different sectors,
\* and the tree has index blocks at two levels.
C11_Witness ==
    /\ AllocateSucceeded
    /\ hdr.level = LDouble
    /\ call.arg % SectorSize = 1
    /\ FileHeader_ByteToSector(hdr, call.arg - 1).sec
           # FileHeader_ByteToSector(hdr, call.arg - 2).sec
    /\ Cardinality(IndexSectors(hdr)) > hdr.levelSectors

\* The active entries of blk and of every node below it lie within the
\* NumSectorInt slots of nextSectors and nextIndexBlocks, and every
\* IndexBlock has at least one.
RECURSIVE BlockEntriesInRange(_)
BlockEntriesInRange(blk) ==
    /\ 1 <= blk.levelSectors
    /\ blk.levelSectors <= NumSectorInt
    /\ 0 .. (blk.levelSectors - 1) \subseteq DOMAIN blk.nextSectors
    /\ DOMAIN blk.nextSectors = 0 .. (NumSectorInt - 1)
    /\ Len(blk.nextIndexBlocks) <= blk.levelSectors
    /\ blk.level = 0 => blk.nextIndexBlocks = << >>
    /\ \A j \in DOMAIN blk.nextIndexBlocks :
          BlockEntriesInRange(blk.nextIndexBlocks[j])

\* The active entries of header h lie within the NumPointers slots of
\* dataSectors and nextIndexBlocks, and so it is in every node below.
EntriesInRange(h) ==
    /\ 0 <= h.levelSectors
    /\ h.levelSectors <= NumPointers
    /\ 0 .. (h.levelSectors - 1) \subseteq DOMAIN h.dataSectors
    /\ DOMAIN h.dataSectors = 0 .. (NumPointers - 1)
    /\ Len(h.nextIndexBlocks) <= h.levelSectors
    /\ h.level = LDirect => h.nextIndexBlocks = << >>
    /\ \A j \in DOMAIN h.nextIndexBlocks :
          BlockEntriesInRange(h.nextIndexBlocks[j])

\* Every node the tree of h should have is there.
RECURSIVE BlockComplete(_)
BlockComplete(blk) ==
    /\ blk.level > 0 => Len(blk.nextIndexBlocks) = blk.levelSectors
    /\ \A j \in DOMAIN blk.nextIndexBlocks :
          BlockComplete(blk.nextIndexBlocks[j])

\* C12: for every size 0 <= n <= MaxFileSize, the tree Allocate has built
\* (whole when it returned TRUE, in part when an ASSERT stopped it) and
\* the tree FetchFrom has built have 0 <= levelSectors <= NumPointers in
\* the root and 1 <= levelSectors <= NumSectorInt in every IndexBlock, so
\* the slots 0 .. levelSectors-1 that the loops write and read are slots
\* of the tables.
C12_ActiveEntriesWithinTables ==
    /\ (/\ call.op = "Allocate"
        /\ call.arg \in 0 .. MaxFileSize
        /\ call.ret # "FALSE")
       => /\ EntriesInRange(hdr)
          /\ call.ret = "TRUE" =>
                /\ hdr.level > LDirect =>
                      Len(hdr.nextIndexBlocks) = hdr.levelSectors
                /\ \A j \in DOMAIN hdr.nextIndexBlocks :
                      BlockComplete(hdr.nextIndexBlocks[j])
    /\ loaded
       => /\ EntriesInRange(hdr2)
          /\ hdr2.level > LDirect =>
                Len(hdr2.nextIndexBlocks) = hdr2.levelSectors
          /\ \A j \in DOMAIN hdr2.nextIndexBlocks :
                BlockComplete(hdr2.nextIndexBlocks[j])

\* A file of MaxFileSize bytes has been allocated, written and fetched:
\* the root's table and every index block's table are full.
C12_Witness ==
    /\ call.op = "FetchFrom"
    /\ loaded
    /\ hdr2.numBytes = MaxFileSize
    /\ hdr2.levelSectors = NumPointers
    /\ \A j \in DOMAIN hdr2.nextIndexBlocks :
          hdr2.nextIndexBlocks[j].levelSectors = NumSectorInt

====
